---- MODULE Spec2Model ----
(***************************************************************************)
(* Callout inserter (src/main.ts): the plugin object (settings, the scan   *)
(* of callouts.css, the merged list of callout types), the picker modal    *)
(* CalloutSuggestModal with its preview pane, and the host behaviour the   *)
(* modal is wired to (list population, selection marking, mutation         *)
(* observer delivery, asynchronous render, close).                         *)
(***************************************************************************)
EXTENDS Integers, Sequences, FiniteSets, TLC

(* ------------------------------ bounds -------------------------------- *)
\* picker sessions (modals) the command may create
MaxSessions == 2
\* updatePreview calls over all sessions
MaxCalls == 3
\* presses of the settings tab's Refresh button
MaxRefresh == 1
\* length of the input sequences of the merge specification
MaxLen == 3
\* last line and last column the cursor may be on when the command runs
MaxLine == 3
MaxCh == 2
\* onClose calls on one modal
MaxCloses == 2

Sessions == 1..MaxSessions

\* currentPreviewType: string | null
Null == "<null>"

(* ------------------------------ strings ------------------------------- *)
\* The UTF-16 code units of the strings the model uses: Array.prototype.sort
\* without a comparator orders strings by their code units.
Utf16 ==
  [ note     |-> <<110, 111, 116, 101>>,
    abstract |-> <<97, 98, 115, 116, 114, 97, 99, 116>>,
    info     |-> <<105, 110, 102, 111>>,
    todo     |-> <<116, 111, 100, 111>>,
    tip      |-> <<116, 105, 112>>,
    success  |-> <<115, 117, 99, 99, 101, 115, 115>>,
    question |-> <<113, 117, 101, 115, 116, 105, 111, 110>>,
    warning  |-> <<119, 97, 114, 110, 105, 110, 103>>,
    failure  |-> <<102, 97, 105, 108, 117, 114, 101>>,
    danger   |-> <<100, 97, 110, 103, 101, 114>>,
    bug      |-> <<98, 117, 103>>,
    example  |-> <<101, 120, 97, 109, 112, 108, 101>>,
    quote    |-> <<113, 117, 111, 116, 101>>,
    summary  |-> <<115, 117, 109, 109, 97, 114, 121>>,
    custom   |-> <<99, 117, 115, 116, 111, 109>>,
    Tip      |-> <<84, 105, 112>>,
    no       |-> <<110, 111>> ]

AllNames == DOMAIN Utf16

\* a < b as the default sort compares them: by code units, a proper prefix first
StrLess(a, b) ==
  LET x == Utf16[a]
      y == Utf16[b]
  IN \E k \in 1..(Len(y)) :
        /\ \A j \in 1..(k - 1) : j <= Len(x) /\ x[j] = y[j]
        /\ \/ k = Len(x) + 1
           \/ k <= Len(x) /\ x[k] < y[k]

DEFAULT_SETTINGS ==
  << "note", "abstract", "info", "todo", "tip", "success", "question",
     "warning", "failure", "danger", "bug", "example", "quote", "summary" >>

(* --------------------------- array helpers ---------------------------- *)
Range(q) == { q[i] : i \in DOMAIN q }

\* Array.from(new Set(q)): the first occurrence of each element, in order
RECURSIVE SetOrder(_)
SetOrder(q) ==
  IF q = << >> THEN << >>
  ELSE LET init == SetOrder(SubSeq(q, 1, Len(q) - 1))
           last == q[Len(q)]
       IN IF last \in Range(init) THEN init ELSE Append(init, last)

\* x put before the first element of the sorted q that is greater than x
RECURSIVE InsertSorted(_, _)
InsertSorted(x, q) ==
  IF q = << >> THEN << x >>
  ELSE IF StrLess(x, Head(q)) THEN << x >> \o q
  ELSE << Head(q) >> \o InsertSorted(x, Tail(q))

\* Array.prototype.sort() with the default comparison
RECURSIVE sort(_)
sort(q) ==
  IF q = << >> THEN << >>
  ELSE InsertSorted(q[Len(q)], sort(SubSeq(q, 1, Len(q) - 1)))

\* the sequences over S of length at most n
SeqsUpTo(S, n) == UNION { [1..k -> S] : k \in 0..n }

\* the subsequences of q (order kept)
RECURSIVE SubSeqs(_)
SubSeqs(q) ==
  IF q = << >> THEN { << >> }
  ELSE LET rest == SubSeqs(Tail(q))
       IN rest \cup { << Head(q) >> \o r : r \in rest }

(* ------------------------------- state -------------------------------- *)
VARIABLES
  plugin,   \* CalloutInserterPlugin: loaded, settings, cssCalloutTypes, reads in flight
  modal,    \* modal[s]: the CalloutSuggestModal of session s
  editor,   \* the document editor the modals insert into
  typesEl   \* the settings tab's "Found Callout Types" text

vars == << plugin, modal, editor, typesEl >>

(* ------------------------------ plugin -------------------------------- *)
\* what data.json may hold: null, or a record with defaultCalloutTypes
PersistedChoices == { << "note", "custom", "tip" >>, << >> }

\* callouts.css as the sequence of its attribute selectors
Sel(attr, value) == [attr |-> attr, value |-> value]
CssChoices ==
  { << Sel("data-callout", "tip"), Sel("class", "note"),
       Sel("data-callout", "custom"), Sel("data-callout", "tip") >>,
    << Sel("data-callout", "custom") >> }

\* data.json and callouts.css behind the plugin states the picker sessions start from
LoadedChoices ==
  { << << "note", "custom", "tip" >>, << Sel("data-callout", "custom") >> >>,
    << << >>, << Sel("data-callout", "custom") >> >>,
    << << >>, << Sel("class", "callout") >> >> }

\* Object.assign({}, DEFAULT_SETTINGS, data).defaultCalloutTypes
loadSettings(data) == IF data = Null THEN DEFAULT_SETTINGS ELSE data

\* content.matchAll(/\[data-callout=["']([^"']+)["']\]/g), the captured names
RECURSIVE matchAll(_)
matchAll(content) ==
  IF content = << >> THEN << >>
  ELSE LET h == Head(content)
       IN (IF h.attr = "data-callout" THEN << h.value >> ELSE << >>)
            \o matchAll(Tail(content))

\* parseCalloutTypesFromCSS up to the read being issued
parseCalloutTypesFromCSS(p) == [p EXCEPT !.reads = @ + 1]

\* the .then handler of the read
readThen(p, content) ==
  [p EXCEPT !.reads = @ - 1,
            !.cssCalloutTypes = SetOrder(matchAll(content)),
            !.lastScan = "found"]

\* the read's rejection with no .catch handler
readUncaught(p) ==
  [p EXCEPT !.reads = @ - 1,
            !.errors = @ \cup { "ReadError" },
            !.lastScan = "unreadable"]

\* the .catch handler of the read
readCatch(p) ==
  [p EXCEPT !.reads = @ - 1,
            !.cssCalloutTypes = << >>,
            !.lastScan = "unreadable"]

\* getAvailableCalloutTypes without the sort
getAvailableCalloutTypesUnsorted(p) ==
  SetOrder(p.cssCalloutTypes \o p.settings)

getAvailableCalloutTypes(p) ==
  sort(SetOrder(p.cssCalloutTypes \o p.settings))

(* ------------------------------- modal -------------------------------- *)
NoModal ==
  [ phase              |-> "none",
    calloutTypes       |-> << >>,
    rows               |-> << >>,      \* the rows the list shows, filtered
    selected           |-> 0,          \* index of the row with is-selected, 0: none
    currentPreviewType |-> Null,
    previewEl          |-> << >>,      \* the rendered children, by callout type
    inflight           |-> << >>,      \* callout types of the renders not yet settled
    observer           |-> "undefined",
    component          |-> "new",
    released           |-> 0,          \* times the component's resources were released
    errors             |-> { },        \* errors no handler caught
    raced              |-> FALSE,      \* the last render started over one of another type
    nCalls             |-> 0,          \* updatePreview calls
    nDiffer            |-> 0,          \* those naming another type than the current one
    nRenders           |-> 0,          \* renders started
    runType            |-> Null,       \* the type the last call named
    nRuns              |-> 0,          \* runs of consecutive calls naming one type
    runRenders         |-> 0,          \* renders started by the calls of the last run
    closes             |-> 0,          \* onClose calls
    atClose            |-> 0,          \* nCalls when the modal was closed
    late               |-> FALSE,      \* a row's class changed after the close
    scan               |-> "none",     \* how the last scan had ended at construction
    nSettled           |-> 0,          \* renders that settled
    chosen             |-> Null ]      \* the item handed to onChooseItem

constructor(calloutTypes) ==
  [NoModal EXCEPT !.phase = "constructed", !.calloutTypes = calloutTypes]

\* q without its first occurrence of x
RECURSIVE RemoveOne(_, _)
RemoveOne(q, x) ==
  IF q = << >> THEN << >>
  ELSE IF Head(q) = x THEN Tail(q)
  ELSE << Head(q) >> \o RemoveOne(Tail(q), x)

\* inflight holds a bag: kept sorted so that equal bags are equal states
Pending(q) == sort(q)

\* a call of updatePreview is entered: the record of the calls
called(m, type) ==
  [m EXCEPT !.nCalls = @ + 1,
            !.nDiffer = IF m.currentPreviewType # type THEN @ + 1 ELSE @,
            !.nRuns = IF m.runType # type THEN @ + 1 ELSE @,
            !.runRenders = IF m.runType # type THEN 0 ELSE @,
            !.runType = type]

\* MarkdownRenderer.render(app, calloutMarkdown, previewEl, '', component) is
\* called: the render is in flight until it settles
render(m, type) ==
  [m EXCEPT !.inflight = Pending(Append(@, type)),
            !.raced = \E c \in Range(m.inflight) : c # type,
            !.nRenders = @ + 1,
            !.runRenders = @ + 1]

\* updatePreview without the test that suppresses a repeated type
updatePreviewAlways(m, type) ==
  LET c == called(m, type)
  IN render([c EXCEPT !.currentPreviewType = type, !.previewEl = << >>], type)

\* updatePreview that empties the pane before the test of the current type
updatePreviewClearing(m, type) ==
  LET c == [called(m, type) EXCEPT !.previewEl = << >>]
  IN IF c.currentPreviewType = type THEN c
     ELSE render([c EXCEPT !.currentPreviewType = type], type)

\* updatePreview that drops a call made while a render is in flight
updatePreviewWaiting(m, type) ==
  LET c == called(m, type)
  IN IF c.currentPreviewType = type \/ c.inflight # << >> THEN c
     ELSE render([c EXCEPT !.currentPreviewType = type, !.previewEl = << >>], type)

updatePreview(m, type) ==
  LET c == called(m, type)
  IN IF c.currentPreviewType = type THEN c
     ELSE render([c EXCEPT !.currentPreviewType = type, !.previewEl = << >>], type)

\* renderSuggestion without the look at is-selected
renderSuggestionHoverOnly(m, k) == m

\* the row-materialization hook, for row k of m.rows
renderSuggestion(m, k) ==
  IF k = m.selected THEN updatePreview(m, m.rows[k]) ELSE m

RECURSIVE renderRows(_, _)
renderRows(m, k) ==
  IF k > Len(m.rows) THEN m
  ELSE renderRows(renderSuggestion(m, k), k + 1)

\* the host list widget shows `rows`: the first is marked is-selected before
\* the hook runs for it (main.ts:213), every row goes through the hook
setSuggestions(m, rows) ==
  renderRows([m EXCEPT !.rows = rows,
                       !.selected = IF rows = << >> THEN 0 ELSE 1], 1)

\* the MutationObserver callback over the records' targets (row indexes)
RECURSIVE observerCallback(_, _)
observerCallback(m, targets) ==
  IF targets = << >> THEN m
  ELSE LET t == Head(targets)
           n == IF t = m.selected THEN updatePreview(m, m.rows[t]) ELSE m
       IN observerCallback(n, Tail(targets))

\* the records of class changes reach the callback while the observer observes
deliver(m, targets) ==
  IF m.observer = "observing" THEN observerCallback(m, targets) ELSE m

\* onOpen that creates no MutationObserver
onOpenUnobserved(m) ==
  setSuggestions([m EXCEPT !.phase = "open"], m.calloutTypes)

onOpen(m) ==
  [setSuggestions([m EXCEPT !.phase = "open"], m.calloutTypes)
     EXCEPT !.observer = "observing"]

\* Component.unload(): releases what the component holds, once
unload(m) ==
  IF m.component = "unloaded" THEN m
  ELSE [m EXCEPT !.component = "unloaded", !.released = @ + 1]

\* onClose without the test of this.observer
onCloseUnguarded(m) ==
  LET u == unload([m EXCEPT !.closes = @ + 1])
  IN IF u.observer # "undefined"
     THEN [u EXCEPT !.observer = "disconnected"]
     ELSE [u EXCEPT !.errors = @ \cup { "TypeError" }]

\* onClose that leaves the observer connected
onCloseLeaking(m) == unload([m EXCEPT !.closes = @ + 1])

onClose(m) ==
  LET u == unload([m EXCEPT !.closes = @ + 1])
  IN IF u.observer # "undefined"
     THEN [u EXCEPT !.observer = "disconnected"]
     ELSE u

\* Modal.close(): the host takes the modal down and calls onClose
close(m) ==
  [onClose(m) EXCEPT !.phase = "closed",
                     !.atClose = IF m.phase = "closed" THEN @ ELSE m.nCalls]

(* ------------------------------- editor ------------------------------- *)
CursorChoices == { [line |-> 3, ch |-> 5] }

\* `> [!${type}]\n> `
calloutText(type) == "> [!" \o type \o "]\n> "

\* insertCallout that puts the cursor behind the text on the cursor's own line
insertCalloutSameLine(e, type) ==
  LET cursor == e.cursor
      newCursor == [line |-> cursor.line, ch |-> cursor.ch + 2]
  IN [e EXCEPT !.cursor = newCursor,
               !.ops = @ \o << << "replaceRange", calloutText(type), cursor >>,
                               << "setCursor", newCursor >>,
                               << "focus" >> >>]

insertCallout(e, type) ==
  LET cursor == e.cursor
      newCursor == [line |-> cursor.line + 1, ch |-> 2]
  IN [e EXCEPT !.cursor = newCursor,
               !.ops = @ \o << << "replaceRange", calloutText(type), cursor >>,
                               << "setCursor", newCursor >>,
                               << "focus" >> >>]

(* ------------------------------ actions ------------------------------- *)
TotalCalls ==
  LET RECURSIVE Sum(_)
      Sum(s) == IF s = 0 THEN 0 ELSE modal[s].nCalls + Sum(s - 1)
  IN Sum(MaxSessions)

\* the plugin before onload
Unloaded ==
  [ loaded |-> FALSE, settings |-> << >>, cssCalloutTypes |-> << >>,
    reads |-> 0, refreshes |-> 0, lastScan |-> "none", errors |-> { } ]

\* the plugin after onload, the scan settled
Loaded(settings, scanned) ==
  [Unloaded EXCEPT !.loaded = TRUE, !.settings = settings,
                   !.cssCalloutTypes = scanned, !.lastScan = "found"]

InitRest ==
  /\ modal = [s \in Sessions |-> NoModal]
  /\ editor \in { [cursor |-> c, ops |-> << >>] : c \in CursorChoices }
  /\ typesEl = << >>

\* the picker sessions of a loaded plugin
Init ==
  /\ plugin \in { Loaded(loadSettings(c[1]), SetOrder(matchAll(c[2]))) :
                    c \in LoadedChoices }
  /\ InitRest

\* the plugin from its construction
InitPlugin ==
  /\ plugin = Unloaded
  /\ InitRest

\* onload: the settings are loaded, the scan is started, the command is added
OnLoad ==
  /\ ~plugin.loaded
  /\ \E data \in PersistedChoices :
       plugin' = parseCalloutTypesFromCSS(
                   [plugin EXCEPT !.loaded = TRUE, !.settings = loadSettings(data)])
  /\ UNCHANGED << modal, editor, typesEl >>

ReadResolve ==
  /\ plugin.reads > 0
  /\ \E content \in CssChoices : plugin' = readThen(plugin, content)
  /\ UNCHANGED << modal, editor, typesEl >>

ReadReject ==
  /\ plugin.reads > 0
  /\ plugin' = readCatch(plugin)
  /\ UNCHANGED << modal, editor, typesEl >>

\* the settings tab's Refresh button
Refresh ==
  /\ plugin.loaded
  /\ plugin.refreshes < MaxRefresh
  /\ plugin' = parseCalloutTypesFromCSS([plugin EXCEPT !.refreshes = @ + 1])
  /\ UNCHANGED << modal, editor, typesEl >>

\* the settings tab's display()
Display ==
  /\ plugin.loaded
  /\ typesEl' = LET types == getAvailableCalloutTypes(plugin)
                IN IF types = << >> THEN << "None found" >> ELSE types
  /\ UNCHANGED << plugin, modal, editor >>

\* the modal with the current type kept in one place for all modals: a new
\* modal starts from the type the last closed one previewed
newSharing(p) ==
  LET closed == { t \in Sessions : modal[t].phase = "closed" }
      last == CHOOSE t \in closed : \A u \in closed : u <= t
      m == [constructor(getAvailableCalloutTypes(p)) EXCEPT !.scan = p.lastScan]
  IN IF closed = { } THEN m
     ELSE [m EXCEPT !.currentPreviewType = modal[last].currentPreviewType]

\* new CalloutSuggestModal(this.app, editor, this.getAvailableCalloutTypes())
new(p) ==
  [constructor(getAvailableCalloutTypes(p)) EXCEPT !.scan = p.lastScan]

\* the editorCallback of the insert-callout command; the host runs no command
\* while a modal is open
Command(s) ==
  /\ plugin.loaded
  /\ modal[s].phase = "none"
  /\ \A t \in 1..(s - 1) : modal[t].phase = "closed"
  /\ TotalCalls < MaxCalls
  /\ modal' = [modal EXCEPT ![s] = onOpen(new(plugin))]
  /\ UNCHANGED << plugin, editor, typesEl >>

\* the pointer enters row i; the host may mark the hovered row selected
Hover(s, i, selects) ==
  LET m == modal[s]
      old == m.selected
      m1 == IF selects THEN [m EXCEPT !.selected = i] ELSE m
      m2 == updatePreview(m1, m.rows[i])
      m3 == IF selects /\ old # i THEN deliver(m2, << old, i >>) ELSE m2
  IN /\ m.phase = "open"
     /\ i \in 1..Len(m.rows)
     /\ TotalCalls < MaxCalls
     /\ modal' = [modal EXCEPT ![s] = m3]
     /\ UNCHANGED << plugin, editor, typesEl >>

\* keyboard navigation moves is-selected to row i
KeyNav(s, i) ==
  LET m == modal[s]
      old == m.selected
  IN /\ m.phase = "open"
     /\ i \in 1..Len(m.rows)
     /\ i # old
     /\ TotalCalls < MaxCalls
     /\ modal' = [modal EXCEPT ![s] =
                    deliver([m EXCEPT !.selected = i], << old, i >>)]
     /\ UNCHANGED << plugin, editor, typesEl >>

\* the query changes: the host shows the matching rows anew; the class change
\* of the new first row is observed when the row is attached before it is marked
Retype(s, rows, observed) ==
  LET m == modal[s]
      m1 == setSuggestions(m, rows)
      m2 == IF observed /\ rows # << >> THEN deliver(m1, << 1 >>) ELSE m1
  IN /\ m.phase = "open"
     /\ rows \in SubSeqs(m.calloutTypes)
     /\ TotalCalls < MaxCalls
     /\ modal' = [modal EXCEPT ![s] = m2]
     /\ UNCHANGED << plugin, editor, typesEl >>

\* MarkdownRenderer.render settles: its output is in previewEl, or it rejected
\* and the promise of updatePreview is rejected with it
RenderSettle(s, type, ok) ==
  LET m == modal[s]
  IN /\ type \in Range(m.inflight)
     /\ modal' = [modal EXCEPT ![s] =
          IF ok
          THEN [m EXCEPT !.inflight = RemoveOne(@, type),
                         !.nSettled = @ + 1,
                         !.previewEl = Append(@, type)]
          ELSE [m EXCEPT !.inflight = RemoveOne(@, type),
                         !.nSettled = @ + 1,
                         !.errors = @ \cup { "RenderError" }]]
     /\ UNCHANGED << plugin, editor, typesEl >>

\* the selected row is chosen: the host closes the modal, then hands the
\* item to onChooseItem
Confirm(s) ==
  LET m == modal[s]
  IN /\ m.phase = "open"
     /\ m.selected \in 1..Len(m.rows)
     /\ modal' = [modal EXCEPT ![s] = [close(m) EXCEPT !.chosen = m.rows[m.selected]]]
     /\ editor' = insertCallout(editor, m.rows[m.selected])
     /\ UNCHANGED << plugin, typesEl >>

\* Escape
Cancel(s) ==
  LET m == modal[s]
  IN /\ m.phase = "open"
     /\ modal' = [modal EXCEPT ![s] = close(m)]
     /\ UNCHANGED << plugin, editor, typesEl >>

\* a click outside the modal
Dismiss(s) ==
  LET m == modal[s]
  IN /\ m.phase = "open"
     /\ modal' = [modal EXCEPT ![s] = close(m)]
     /\ UNCHANGED << plugin, editor, typesEl >>

\* a row of a closed modal changes its class
LateClassChange(s, i) ==
  LET m == modal[s]
      old == m.selected
  IN /\ m.phase = "closed"
     /\ i \in 1..Len(m.rows)
     /\ i # old
     /\ modal' = [modal EXCEPT ![s] =
                    deliver([m EXCEPT !.selected = i, !.late = TRUE], << old, i >>)]
     /\ UNCHANGED << plugin, editor, typesEl >>

\* a caller constructs a modal and does not open it yet
Construct(s) ==
  /\ plugin.loaded
  /\ modal[s].phase = "none"
  /\ \A t \in 1..(s - 1) : modal[t].phase = "closed"
  /\ modal' = [modal EXCEPT ![s] = new(plugin)]
  /\ UNCHANGED << plugin, editor, typesEl >>

\* open() on a constructed modal
Open(s) ==
  /\ modal[s].phase = "constructed"
  /\ TotalCalls < MaxCalls
  /\ modal' = [modal EXCEPT ![s] = onOpen(modal[s])]
  /\ UNCHANGED << plugin, editor, typesEl >>

\* close() on a modal that was never opened, or was closed already
Reclose(s) ==
  LET m == modal[s]
  IN /\ m.phase \in { "constructed", "closed" }
     /\ m.closes < MaxCloses
     /\ modal' = [modal EXCEPT ![s] = close(m)]
     /\ UNCHANGED << plugin, editor, typesEl >>

NextSession ==
  \/ \E s \in Sessions : Command(s)
  \/ \E s \in Sessions, i \in 1..3, b \in BOOLEAN : Hover(s, i, b)
  \/ \E s \in Sessions, i \in 1..3 : KeyNav(s, i)
  \/ \E s \in Sessions, b \in BOOLEAN :
       \E rows \in SubSeqs(modal[s].calloutTypes) : Retype(s, rows, b)
  \/ \E s \in Sessions, type \in AllNames, ok \in BOOLEAN : RenderSettle(s, type, ok)
  \/ \E s \in Sessions : Confirm(s)
  \/ \E s \in Sessions : Cancel(s)
  \/ \E s \in Sessions : Dismiss(s)

Next == NextSession

Spec == Init /\ [][Next]_vars

NextPlugin ==
  \/ OnLoad
  \/ ReadResolve
  \/ ReadReject
  \/ Refresh
  \/ Display
  \/ \E s \in Sessions : Command(s)
  \/ \E s \in Sessions : Cancel(s)

SpecPlugin == InitPlugin /\ [][NextPlugin]_vars

\* the modal driven through its lifecycle methods by any caller, the rows'
\* classes changing while it is open and after it is closed
NextLifecycle ==
  \/ \E s \in Sessions : Command(s)
  \/ \E s \in Sessions, i \in 1..3 : KeyNav(s, i)
  \/ \E s \in Sessions : Confirm(s)
  \/ \E s \in Sessions : Cancel(s)
  \/ \E s \in Sessions : Dismiss(s)
  \/ \E s \in Sessions, i \in 1..3 : LateClassChange(s, i)
  \/ \E s \in Sessions : Construct(s)
  \/ \E s \in Sessions : Open(s)
  \/ \E s \in Sessions : Reclose(s)

SpecLifecycle == Init /\ [][NextLifecycle]_vars

\* the merge over bounded inputs
MergeNames == { "custom", "note", "tip", "Tip" }

InitMerge ==
  /\ plugin \in { Loaded(settings, scanned) :
                    settings \in SeqsUpTo(MergeNames, MaxLen) \cup { DEFAULT_SETTINGS },
                    scanned \in { q \in SeqsUpTo(MergeNames, MaxLen) : SetOrder(q) = q } }
  /\ InitRest

NextMerge ==
  \/ Display
  \/ \E s \in Sessions : Command(s)
  \/ \E s \in Sessions : Cancel(s)

SpecMerge == InitMerge /\ [][NextMerge]_vars

\* the picker sessions with the settings tab open beside them: previews,
\* insertions, scans of callouts.css and displays of the merged list; the
\* pointer does not move the selection and the renders succeed
InitFrame ==
  /\ plugin = Loaded(<< "note", "tip" >>, << "custom" >>)
  /\ InitRest

NextFrame ==
  \/ \E s \in Sessions : Command(s)
  \/ \E s \in Sessions, i \in 1..3 : Hover(s, i, FALSE)
  \/ \E s \in Sessions, type \in AllNames : RenderSettle(s, type, TRUE)
  \/ \E s \in Sessions : Confirm(s)
  \/ \E s \in Sessions : Cancel(s)
  \/ Refresh
  \/ ReadResolve
  \/ ReadReject
  \/ Display

SpecFrame == InitFrame /\ [][NextFrame]_vars

\* the insertion over the cursor positions and over lists that hold "warning"
InsertCursors == { [line |-> l, ch |-> c] : l \in 0..MaxLine, c \in 0..MaxCh }

InsertChoices == { << "warning", "note" >>, << "tip" >> }

InitInsert ==
  /\ plugin \in { Loaded(settings, << >>) : settings \in InsertChoices }
  /\ modal = [s \in Sessions |-> NoModal]
  /\ editor \in { [cursor |-> c, ops |-> << >>] : c \in InsertCursors }
  /\ typesEl = << >>

NextInsert ==
  \/ \E s \in Sessions : Command(s)
  \/ \E s \in Sessions, i \in 1..3 : KeyNav(s, i)
  \/ \E s \in Sessions : Confirm(s)
  \/ \E s \in Sessions : Cancel(s)

SpecInsert == InitInsert /\ [][NextInsert]_vars

(* ------------------------------ properties ---------------------------- *)
\* q with its elements i and i + 1 exchanged
Swap(q, i) ==
  [k \in 1..Len(q) |-> IF k = i THEN q[i + 1] ELSE IF k = i + 1 THEN q[i] ELSE q[k]]

\* C1: when a render was started while the render of another type was in
\* flight, then once all renders have settled (none rejected) the preview
\* pane holds the content of the last requested type and nothing else.
C1_LastWriterWins ==
  \A s \in Sessions :
    LET m == modal[s]
    IN (m.raced /\ m.inflight = << >> /\ "RenderError" \notin m.errors)
         => m.previewEl = << m.runType >>

\* C2: a run of consecutive updatePreview calls naming one type starts at most
\* one render, and exactly one when the run is the session's first.
C2_Coalescing ==
  \A s \in Sessions :
    LET m == modal[s]
    IN /\ m.runRenders <= 1
       /\ m.nRuns = 1 => m.nRenders = 1

\* three calls naming the same type, the first one's render still in flight
C2_Witness ==
  \E s \in Sessions :
    LET m == modal[s]
    IN m.nRuns = 1 /\ m.nCalls = 3 /\ m.nRenders = 1 /\ m.inflight # << >>

\* C3: whatever is mounted in the preview pane is content of the current
\* preview type, so of one type only.
C3_OneLiveCategory ==
  \A s \in Sessions :
    \A i \in DOMAIN modal[s].previewEl :
      modal[s].previewEl[i] = modal[s].currentPreviewType

\* C4: a modal opened on a non-empty list has called updatePreview; while that
\* call is the only one, the first row's type is the current preview type, one
\* render was started for it, and once it has settled without rejecting the
\* preview pane holds that type's content.
C4_InitialSelection ==
  \A s \in Sessions :
    LET m == modal[s]
    IN (m.phase # "none" /\ m.calloutTypes # << >>) =>
         /\ m.nCalls >= 1
         /\ m.nCalls = 1 =>
              /\ m.currentPreviewType = m.calloutTypes[1]
              /\ m.nRenders = 1
              /\ (m.inflight = << >> /\ "RenderError" \notin m.errors)
                    => m.previewEl = << m.calloutTypes[1] >>

\* a list of three rows just opened, the first selected and shown in the pane
C4_Witness ==
  \E s \in Sessions :
    LET m == modal[s]
    IN /\ m.phase = "open" /\ Len(m.rows) = 3 /\ m.selected = 1
       /\ m.nCalls = 1 /\ m.inflight = << >>
       /\ m.previewEl = << m.rows[1] >>

\* C5: a rejected render leaves no error uncaught in the session.
C5_RenderFailureNonFatal ==
  \A s \in Sessions : "RenderError" \notin modal[s].errors

\* C6: a modal that was opened and is closed has its observer disconnected,
\* and no updatePreview call was made for it since the close.
C6_ObserverReleased ==
  \A s \in Sessions :
    LET m == modal[s]
    IN (m.phase = "closed" /\ m.observer # "undefined") =>
         /\ m.observer = "disconnected"
         /\ m.nCalls = m.atClose

\* a closed modal whose observer had called updatePreview before the close and
\* whose rows changed class after it
C6_Witness ==
  \E s \in Sessions :
    LET m == modal[s]
    IN m.phase = "closed" /\ m.late /\ m.observer = "disconnected" /\ m.nCalls >= 2

\* C7: the preview pane of a closed modal holds no content.
C7_UnmountedAfterClose ==
  \A s \in Sessions : modal[s].phase = "closed" => modal[s].previewEl = << >>

C9_Merge ==
  LET css == plugin.cssCalloutTypes
      cfg == plugin.settings
      r == getAvailableCalloutTypes(plugin)
  IN /\ Range(r) = Range(css) \cup Range(cfg)
     /\ \A i, j \in DOMAIN r : i < j => StrLess(r[i], r[j])
     /\ \A i \in 1..(Len(css) - 1) :
          getAvailableCalloutTypes([plugin EXCEPT !.cssCalloutTypes = Swap(css, i)]) = r
     /\ \A i \in 1..(Len(cfg) - 1) :
          getAvailableCalloutTypes([plugin EXCEPT !.settings = Swap(cfg, i)]) = r
     /\ (css = << "custom" >> /\ cfg = << "note", "custom", "tip" >>)
          => r = << "custom", "note", "tip" >>
     /\ (css = << "Tip" >> /\ cfg = << "tip", "custom", "tip" >>)
          => r = << "Tip", "custom", "tip" >>
     /\ \A s \in Sessions : modal[s].phase # "none" => modal[s].calloutTypes = r
     /\ typesEl \in { << >>, r, << "None found" >> }

\* the modal opened on the merge of {custom} and [note, custom, tip]
C9_Witness ==
  /\ plugin.cssCalloutTypes = << "custom" >>
  /\ plugin.settings = << "note", "custom", "tip" >>
  /\ \E s \in Sessions :
       modal[s].phase = "open" /\ modal[s].calloutTypes = << "custom", "note", "tip" >>

\* C10: after a read that was rejected the scanned names are empty and no
\* error is left uncaught; a modal constructed then lists the configured
\* names, sorted, each once.
C10_MissingSource ==
  /\ "ReadError" \notin plugin.errors
  /\ plugin.lastScan = "unreadable" => plugin.cssCalloutTypes = << >>
  /\ \A s \in Sessions :
       (modal[s].phase # "none" /\ modal[s].scan = "unreadable")
         => modal[s].calloutTypes = sort(SetOrder(plugin.settings))

\* the scan had found names, the refresh could not read the file, and the
\* picker is open on the configured names
C10_Witness ==
  /\ plugin.lastScan = "unreadable"
  /\ plugin.refreshes >= 1
  /\ plugin.reads = 0
  /\ \E s \in Sessions :
       /\ modal[s].phase = "open"
       /\ modal[s].scan = "unreadable"
       /\ modal[s].calloutTypes = << "custom", "note", "tip" >>


\* C11: a confirm of category c with the cursor at (L, k) makes exactly three
\* editor calls, in this order: the text "> [!c]", a newline, "> " is inserted
\* at (L, k), the cursor is set to line L + 1, column 2, the editor is
\* focused; the editor is called by confirms only, once per confirm.
C11_InsertionOnConfirm ==
  [][ /\ \A s \in Sessions :
           (modal[s].chosen = Null /\ modal'[s].chosen # Null) =>
             LET c == modal'[s].chosen
                 at == editor.cursor
                 to == [line |-> at.line + 1, ch |-> 2]
             IN /\ editor'.ops = editor.ops \o
                      << << "replaceRange", "> [!" \o c \o "]" \o "\n" \o "> ", at >>,
                         << "setCursor", to >>,
                         << "focus" >> >>
                /\ editor'.cursor = to
      /\ Len(editor'.ops) =
           3 * Cardinality({ s \in Sessions : modal'[s].chosen # Null })
    ]_vars

C11_Witness ==
  /\ \E s \in Sessions : modal[s].chosen = "warning"
  /\ editor.ops = << << "replaceRange", "> [!warning]\n> ", [line |-> 3, ch |-> 1] >>,
                     << "setCursor", [line |-> 4, ch |-> 2] >>,
                     << "focus" >> >>
  /\ editor.cursor = [line |-> 4, ch |-> 2]

\* C12: whenever a row of an open modal becomes the selected one (at the
\* population of the list in open, by keyboard navigation, by the pointer, or
\* as the first row of a list shown anew), updatePreview is called in the same
\* step and the last call names that row's type.
C12_SelectionWiring ==
  [][ \A s \in Sessions :
        LET m == modal[s]
            n == modal'[s]
        IN (/\ n.phase = "open"
            /\ n.selected # 0
            /\ \/ m.phase # "open"
               \/ n.selected # m.selected
               \/ n.rows # m.rows)
             => /\ n.nCalls > m.nCalls
                /\ n.runType = n.rows[n.selected]
    ]_vars

\* the selection was moved off the first row and then the list was shown
\* anew with another first row, each followed by its call
C12_Witness ==
  \E s \in Sessions :
    LET m == modal[s]
    IN /\ m.phase = "open"
       /\ m.nCalls = 3
       /\ m.nRenders = 3
       /\ m.rows # m.calloutTypes
       /\ m.selected = 1
       /\ m.runType = m.rows[1]

\* C13: a call of updatePreview naming another type than the current one is
\* served in its own step, renders in flight or not: the current type is the
\* named one, the pane is emptied, one more render is in flight. Every render
\* started stays in flight until it settles, and the renders started are as
\* many as the calls that named another type than the current one.
C13_NonBlockingSupersession ==
  [][ \A s \in Sessions :
        LET m == modal[s]
            n == modal'[s]
        IN /\ n.nRenders = n.nDiffer
           /\ Len(n.inflight) = n.nRenders - n.nSettled
           /\ n.nDiffer > m.nDiffer =>
                /\ n.nDiffer = m.nDiffer + 1
                /\ n.currentPreviewType = n.runType
                /\ n.previewEl = << >>
                /\ Len(n.inflight) = Len(m.inflight) + 1
                /\ n.runType \in Range(n.inflight)
    ]_vars

\* calls for A, B, A, none settled: three renders in flight, two of them of A
C13_Witness ==
  \E s \in Sessions :
    LET m == modal[s]
        ofCurrent(c) == c = m.currentPreviewType
    IN /\ m.nCalls = 3
       /\ m.nRenders = 3
       /\ Len(m.inflight) = 3
       /\ Len(SelectSeq(m.inflight, ofCurrent)) = 2

\* C14: currentPreviewType and the content of previewEl change only in a step
\* in which an updatePreview call named another type than the current one, or
\* in which the render of such a call settles; a step whose calls all named
\* the current type leaves both, and the renders, as they were; a step of the
\* insertion, of the scan, of the merge or of the settings tab leaves both
\* as they were.
C14_Frame ==
  [][ \A s \in Sessions :
        LET m == modal[s]
            n == modal'[s]
            same == /\ n.currentPreviewType = m.currentPreviewType
                    /\ n.previewEl = m.previewEl
        IN /\ ~same => (n.nDiffer > m.nDiffer \/ n.nSettled > m.nSettled)
           /\ (n.nCalls > m.nCalls /\ n.nDiffer = m.nDiffer) =>
                (same /\ n.inflight = m.inflight /\ n.nRenders = m.nRenders)
           /\ (editor' # editor \/ plugin' # plugin \/ typesEl' # typesEl) => same
    ]_vars

\* a call naming the current type was made over mounted content, the list was
\* scanned anew and displayed, and the callout was inserted: the content is
\* still mounted
C14_Witness ==
  \E s \in Sessions :
    LET m == modal[s]
    IN /\ m.nCalls > m.nDiffer
       /\ m.previewEl = << m.currentPreviewType >>
       /\ m.chosen # Null
       /\ plugin.refreshes > 0
       /\ plugin.reads = 0
       /\ typesEl # << >>

\* C15: a modal that has served no updatePreview call yet has no current
\* type and an empty pane of its own; its first call starts a render, whatever
\* the modals before it previewed; a step of one modal leaves the current type
\* and the pane of every other modal as they were.
C15_SessionIsolation ==
  [][ \A s \in Sessions :
        LET m == modal[s]
            n == modal'[s]
        IN /\ n.nCalls = 0 =>
                (n.currentPreviewType = Null /\ n.previewEl = << >>)
           /\ (m.nCalls = 0 /\ n.nCalls > 0) =>
                /\ n.nRenders = 1
                /\ n.currentPreviewType = n.runType
                /\ n.inflight = << n.runType >>
                /\ n.previewEl = << >>
           /\ n # m =>
                \A t \in Sessions \ { s } :
                  /\ modal'[t].currentPreviewType = modal[t].currentPreviewType
                  /\ modal'[t].previewEl = modal[t].previewEl
    ]_vars

\* the second modal is open on the type the first, closed, modal previewed
\* last: its own render is in flight, its pane is empty beside the first's
C15_Witness ==
  /\ modal[1].phase = "closed"
  /\ modal[1].currentPreviewType # Null
  /\ modal[1].previewEl = << modal[1].currentPreviewType >>
  /\ modal[2].phase = "open"
  /\ modal[2].currentPreviewType = modal[1].currentPreviewType
  /\ modal[2].nCalls = 1
  /\ modal[2].inflight = << modal[2].currentPreviewType >>
  /\ modal[2].previewEl = << >>

\* C16: in an open modal with no render in flight and a current type c, the
\* pane holds the rendered content of c.
C16_QuiescentSync ==
  \A s \in Sessions :
    LET m == modal[s]
    IN (m.phase = "open" /\ m.inflight = << >> /\ m.currentPreviewType # Null)
         => m.currentPreviewType \in Range(m.previewEl)

====
